---- MODULE Spec2Model ----
(***************************************************************************)
(* Model of src/train.py: the training driver of the house-rent model.     *)
(* The driver is one sequential block (lines 29-130).  Its state is the    *)
(* program position, the local variables of the block, and the three       *)
(* stores that outlive the process: the mlflow tracking store (./mlruns),  *)
(* the artifact directory and the bentoml model store.  Because the        *)
(* stores outlive the process, the model lets the driver be executed       *)
(* again on the stores an earlier execution left behind (Restart).         *)
(*                                                                         *)
(* params_candidates is a literal in the source; the model draws it from   *)
(* a bounded family of grids that contains the literal's shape (one        *)
(* candidate per key), so that statements about N parameter sets have      *)
(* more than one case.                                                     *)
(***************************************************************************)
EXTENDS Integers, Sequences, FiniteSets, TLC

\* ---------------------------------------------------------------- bounds
\* most runs the tracking store holds: an execution is given a grid whose
\* parameter sets still fit
MaxStore == 3
\* mean CV RMSE values are drawn from 1..MaxScore
MaxScore == 2
\* boosting iterations of the regressor (sklearn's default, scaled down)
NEstimators == 2

\* ------------------------------------------------------------- constants
Keys ==
  <<"learning_rate", "max_depth", "max_features">>

experiment_name ==
  "new_experiment"

NoRunsMessage ==
  <<"Found no runs for experiment", experiment_name>>

NoError ==
  <<"none", "none">>

VARIABLES
  pc,                \* position in the main block
  params_candidates, \* line 47
  param_set,         \* line 53
  i,                 \* loop index of line 61
  score_cv,          \* line 73 (its mean), 0 before it is computed
  store,             \* runs of the experiment in the tracking store
  active,            \* id of the active (open) run, 0 when none
  k,                 \* position in regr.train_score_ (line 96)
  best_run_df,       \* line 109
  best_run,          \* line 116, a sequence holding the run
  best_params,       \* line 117
  artifact_dir,      \* ARTIFACT_PATH: ids of the run whose model it holds
  bento,             \* the model store's latest house_rent entry
  written,           \* outputs written by the current execution
  stages,            \* stages the current execution has entered, in order
  err,               \* the uncaught exception, NoError when none
  exit_code          \* -1 while running

vars ==
  <<pc, params_candidates, param_set, i, score_cv, store, active, k,
    best_run_df, best_run, best_params, artifact_dir, bento, written,
    stages, err, exit_code>>

\* ------------------------------------------------------------- helpers
\* a Python number and its str() form, as mlflow stores a parameter
Num(v) ==
  <<"num", v>>

Str(x) ==
  <<"str", x[2]>>

Candidates(n) ==
  [j \in 1..n |-> Num(j)]

\* The grids of at most n parameter sets.  A grid with an empty candidate
\* list keeps the source's single candidate for the other keys.
Grids(n) ==
  {[learning_rate |-> Candidates(t[1]), max_depth |-> Candidates(t[2]),
    max_features |-> Candidates(t[3])] :
     t \in {u \in (0..n) \X (0..n) \X (0..n) :
              /\ u[1] * u[2] * u[3] <= n
              /\ u[1] * u[2] * u[3] = 0 =>
                   u \in {<<0, 1, 1>>, <<1, 0, 1>>, <<1, 1, 0>>}}}

\* src.common.utils.get_param_set: the Cartesian product of the candidate
\* lists in lexicographic order over the key order (last key fastest)
get_param_set(params) ==
  LET n1 == Len(params.learning_rate)
      n2 == Len(params.max_depth)
      n3 == Len(params.max_features)
  IN [idx \in 1..(n1 * n2 * n3) |->
        [learning_rate |-> params.learning_rate[((idx - 1) \div (n2 * n3)) + 1],
         max_depth     |-> params.max_depth[(((idx - 1) \div n3) % n2) + 1],
         max_features  |-> params.max_features[((idx - 1) % n3) + 1]]]

\* f"Run {i}"
RunName(n) ==
  <<"Run", n>>

\* regr.train_score_[j-1]: the training loss after boosting iteration j
train_score(j) ==
  NEstimators - j + 1

\* the dict comprehension of line 86 and mlflow's str() of each value
LoggedParams(params) ==
  {<<Keys[j], Str(params[Keys[j]])>> : j \in 1..Len(Keys)}

\* mlflow.log_metric(key, value): step defaults to 0
Metric(key, value) ==
  [key |-> key, value |-> value, step |-> 0]

HasMetric(run, key) ==
  \E j \in 1..Len(run.metrics) : run.metrics[j].key = key

\* run.data.metrics[key]: the entry with the greatest (step, time)
LatestMetric(run, key) ==
  LET idxs == {j \in 1..Len(run.metrics) : run.metrics[j].key = key}
      last == CHOOSE j \in idxs : \A m \in idxs :
                 \/ run.metrics[m].step < run.metrics[j].step
                 \/ run.metrics[m].step = run.metrics[j].step /\ m <= j
  IN run.metrics[last].value

\* mlflow's order for order_by = ["metrics.RMSE_CV ASC"]: runs without the
\* metric last, then ascending value, ties by start time descending
Before(s, a, b) ==
  LET na == ~HasMetric(s[a], "RMSE_CV")
      nb == ~HasMetric(s[b], "RMSE_CV")
  IN \/ ~na /\ nb
     \/ /\ ~na /\ ~nb
        /\ \/ LatestMetric(s[a], "RMSE_CV") < LatestMetric(s[b], "RMSE_CV")
           \/ /\ LatestMetric(s[a], "RMSE_CV") = LatestMetric(s[b], "RMSE_CV")
              /\ a > b
     \/ na /\ nb /\ a > b

\* a search that orders by the metric descending
search_runs_Desc(s) ==
  IF Len(s) = 0 THEN <<>>
  ELSE <<CHOOSE a \in 1..Len(s) : \A b \in (1..Len(s)) \ {a} : Before(s, b, a)>>

\* a search restricted to the runs of the current execution
search_runs_Own(s) ==
  LET mine == {a \in 1..Len(s) : s[a].own}
  IN IF mine = {} THEN <<>>
     ELSE <<CHOOSE a \in mine : \A b \in mine \ {a} : Before(s, a, b)>>

\* mlflow.search_runs(order_by=["metrics.RMSE_CV ASC"], max_results=1)
search_runs(s) ==
  IF Len(s) = 0 THEN <<>>
  ELSE <<CHOOSE a \in 1..Len(s) : \A b \in (1..Len(s)) \ {a} : Before(s, a, b)>>

NewRun(name) ==
  [run_name |-> name, status |-> "RUNNING", own |-> TRUE, tags |-> {},
   params |-> {}, metrics |-> <<>>, artifacts |-> {}]

\* a logging call that writes to the first run of the store
LogToFirst(field, value) ==
  store' = [store EXCEPT ![1] = [@ EXCEPT ![field] = value]]

\* the fields of the active run are the only ones a logging call touches
LogToActive(field, value) ==
  store' = [store EXCEPT ![active] = [@ EXCEPT ![field] = value]]

Own ==
  {r \in 1..Len(store) : store[r].own}

\* ------------------------------------------------------------ initial state
Init ==
  /\ pc = "load_data"
  /\ params_candidates \in Grids(MaxStore)
  /\ param_set = <<>>
  /\ i = 0
  /\ score_cv = 0
  /\ store = <<>>
  /\ active = 0
  /\ k = 0
  /\ best_run_df = <<>>
  /\ best_run = <<>>
  /\ best_params = {}
  /\ artifact_dir = <<>>
  /\ bento = <<>>
  /\ written = {}
  /\ stages = <<>>
  /\ err = NoError
  /\ exit_code = -1

\* An uncaught exception: the with-block of line 65 ends the open run as
\* FAILED, sys.excepthook logs the exception, the interpreter exits with 1.
Abort(e) ==
  /\ pc' = "aborted"
  /\ err' = e
  /\ exit_code' = 1
  /\ active' = 0
  /\ store' = IF active = 0 THEN store
              ELSE [store EXCEPT ![active].status = "FAILED"]

\* ------------------------------------------------------------------ actions
\* line 30: pd.read_csv
LoadData ==
  /\ pc = "load_data"
  /\ pc' = "feature_engineer"
  /\ stages' = Append(stages, "LOAD_DATA")
  /\ UNCHANGED <<params_candidates, param_set, i, score_cv, store, active, k,
                 best_run_df, best_run, best_params, artifact_dir, bento,
                 written, err, exit_code>>

\* line 30 raising (the CSV is missing or malformed)
RaiseLoadData ==
  /\ pc = "load_data"
  /\ Abort(<<"read_csv", "raised">>)
  /\ stages' = Append(stages, "LOAD_DATA")
  /\ UNCHANGED <<params_candidates, param_set, i, score_cv, k, best_run_df,
                 best_run, best_params, artifact_dir, bento, written>>

\* lines 33-35: drop columns, log1p, preprocess_pipeline.fit_transform
FeatureEngineer ==
  /\ pc = "feature_engineer"
  /\ pc' = "persist_features"
  /\ stages' = Append(stages, "FEATURE_ENGINEER")
  /\ UNCHANGED <<params_candidates, param_set, i, score_cv, store, active, k,
                 best_run_df, best_run, best_params, artifact_dir, bento,
                 written, err, exit_code>>

\* lines 38-43: makedirs, to_csv
PersistFeatures ==
  /\ pc = "persist_features"
  /\ pc' = "expand"
  /\ written' = written \cup {"features_csv"}
  /\ stages' = Append(stages, "PERSIST_FEATURES")
  /\ UNCHANGED <<params_candidates, param_set, i, score_cv, store, active, k,
                 best_run_df, best_run, best_params, artifact_dir, bento,
                 err, exit_code>>

\* line 53
ExpandGrid ==
  /\ pc = "expand"
  /\ param_set' = get_param_set(params_candidates)
  /\ pc' = "set_experiment"
  /\ UNCHANGED <<params_candidates, i, score_cv, store, active, k,
                 best_run_df, best_run, best_params, artifact_dir, bento,
                 written, stages, err, exit_code>>

\* lines 57-59: the experiment and the store are the ones of every execution
SetExperiment ==
  /\ pc = "set_experiment"
  /\ pc' = "loop"
  /\ UNCHANGED <<params_candidates, param_set, i, score_cv, store, active, k,
                 best_run_df, best_run, best_params, artifact_dir, bento,
                 written, stages, err, exit_code>>

\* a run named one past the loop index
StartRun_OffByOne ==
  /\ pc = "loop"
  /\ i < Len(param_set)
  /\ store' = Append(store, NewRun(RunName(i + 1)))
  /\ active' = Len(store) + 1
  /\ pc' = "fit"
  /\ UNCHANGED <<params_candidates, param_set, i, score_cv, k, best_run_df,
                 best_run, best_params, artifact_dir, bento, written, stages,
                 err, exit_code>>

\* lines 61-65: the next parameter set, mlflow.start_run(run_name=f"Run {i}")
StartRun ==
  /\ pc = "loop"
  /\ i < Len(param_set)
  /\ store' = Append(store, NewRun(RunName(i)))
  /\ active' = Len(store) + 1
  /\ pc' = "fit"
  /\ UNCHANGED <<params_candidates, param_set, i, score_cv, k, best_run_df,
                 best_run, best_params, artifact_dir, bento, written, stages,
                 err, exit_code>>

\* a loop that stops one parameter set early
LoopExit_Early ==
  /\ pc = "loop"
  /\ i + 1 >= Len(param_set)
  /\ pc' = "search_runs"
  /\ UNCHANGED <<params_candidates, param_set, i, score_cv, store, active, k,
                 best_run_df, best_run, best_params, artifact_dir, bento,
                 written, stages, err, exit_code>>

\* line 61: the grid is exhausted
LoopExit ==
  /\ pc = "loop"
  /\ i >= Len(param_set)
  /\ pc' = "search_runs"
  /\ UNCHANGED <<params_candidates, param_set, i, score_cv, store, active, k,
                 best_run_df, best_run, best_params, artifact_dir, bento,
                 written, stages, err, exit_code>>

\* lines 66-70
Fit ==
  /\ pc = "fit"
  /\ pc' = "evaluate"
  /\ stages' = Append(stages, "FIT")
  /\ UNCHANGED <<params_candidates, param_set, i, score_cv, store, active, k,
                 best_run_df, best_run, best_params, artifact_dir, bento,
                 written, err, exit_code>>

\* a fit failure that is isolated: the run fails, the loop goes on
RaiseFit_Isolated ==
  /\ pc = "fit"
  /\ store' = [store EXCEPT ![active].status = "FAILED"]
  /\ active' = 0
  /\ err' = <<"fit", "raised">>
  /\ i' = i + 1
  /\ pc' = "loop"
  /\ stages' = Append(stages, "FIT")
  /\ UNCHANGED <<params_candidates, param_set, score_cv, k, best_run_df,
                 best_run, best_params, artifact_dir, bento, written,
                 exit_code>>

\* line 70 raising
RaiseFit ==
  /\ pc = "fit"
  /\ Abort(<<"fit", "raised">>)
  /\ stages' = Append(stages, "FIT")
  /\ UNCHANGED <<params_candidates, param_set, i, score_cv, k, best_run_df,
                 best_run, best_params, artifact_dir, bento, written>>

\* lines 73-80: rmse_cv_score and its mean
Evaluate ==
  /\ pc = "evaluate"
  /\ \E s \in 1..MaxScore : score_cv' = s
  /\ pc' = "set_tag"
  /\ stages' = Append(stages, "EVALUATE")
  /\ UNCHANGED <<params_candidates, param_set, i, store, active, k,
                 best_run_df, best_run, best_params, artifact_dir, bento,
                 written, err, exit_code>>

\* lines 82-83
SetTag ==
  /\ pc = "set_tag"
  /\ LogToActive("tags", store[active].tags
                   \cup {<<"estimator_name", "GradientBoostingRegressor">>})
  /\ pc' = "log_params"
  /\ stages' = Append(stages, "LOG")
  /\ UNCHANGED <<params_candidates, param_set, i, score_cv, active, k,
                 best_run_df, best_run, best_params, artifact_dir, bento,
                 written, err, exit_code>>

\* only the first key of the parameter set is logged
LogParams_FirstKey ==
  /\ pc = "log_params"
  /\ LogToActive("params", store[active].params
                   \cup {<<Keys[1], Str(param_set[i + 1][Keys[1]])>>})
  /\ pc' = "log_metrics"
  /\ UNCHANGED <<params_candidates, param_set, i, score_cv, active, k,
                 best_run_df, best_run, best_params, artifact_dir, bento,
                 written, stages, err, exit_code>>

\* line 86
LogParams ==
  /\ pc = "log_params"
  /\ LogToActive("params", store[active].params
                   \cup LoggedParams(param_set[i + 1]))
  /\ pc' = "log_metrics"
  /\ UNCHANGED <<params_candidates, param_set, i, score_cv, active, k,
                 best_run_df, best_run, best_params, artifact_dir, bento,
                 written, stages, err, exit_code>>

\* lines 89-93
LogMetrics ==
  /\ pc = "log_metrics"
  /\ LogToActive("metrics", Append(store[active].metrics,
                                   Metric("RMSE_CV", score_cv)))
  /\ pc' = "train_loss"
  /\ k' = 0
  /\ UNCHANGED <<params_candidates, param_set, i, score_cv, active,
                 best_run_df, best_run, best_params, artifact_dir, bento,
                 written, stages, err, exit_code>>

\* lines 96-97: one pass of the loop over regr.train_score_
LogTrainLoss ==
  /\ pc = "train_loss"
  /\ k < NEstimators
  /\ LogToActive("metrics", Append(store[active].metrics,
                                   Metric("Train Loss", train_score(k + 1))))
  /\ k' = k + 1
  /\ UNCHANGED <<pc, params_candidates, param_set, i, score_cv, active,
                 best_run_df, best_run, best_params, artifact_dir, bento,
                 written, stages, err, exit_code>>

\* line 100: mlflow.sklearn.log_model(pipeline, "model")
LogModel ==
  /\ pc = "train_loss"
  /\ k >= NEstimators
  /\ LogToActive("artifacts", store[active].artifacts \cup {"model"})
  /\ pc' = "log_artifact"
  /\ UNCHANGED <<params_candidates, param_set, i, score_cv, active, k,
                 best_run_df, best_run, best_params, artifact_dir, bento,
                 written, stages, err, exit_code>>

\* line 103: mlflow.log_artifact(ARTIFACT_PATH)
LogArtifact ==
  /\ pc = "log_artifact"
  /\ LogToActive("artifacts", store[active].artifacts \cup {"artifacts"})
  /\ pc' = "log_feature_importance"
  /\ UNCHANGED <<params_candidates, param_set, i, score_cv, active, k,
                 best_run_df, best_run, best_params, artifact_dir, bento,
                 written, stages, err, exit_code>>

\* line 103 raising: nothing catches it
RaiseLogArtifact ==
  /\ pc = "log_artifact"
  /\ Abort(<<"log_artifact", "raised">>)
  /\ UNCHANGED <<params_candidates, param_set, i, score_cv, k, best_run_df,
                 best_run, best_params, artifact_dir, bento, written, stages>>

\* src.common.logger.log_feature_importance renders the chart and logs it to
\* the active run as an artifact
log_feature_importance(artifacts) ==
  artifacts \cup {"feature_importance"}

\* line 106 and the end of the with-block of line 65
LogFeatureImportance ==
  /\ pc = "log_feature_importance"
  /\ store' = [store EXCEPT
                 ![active].artifacts = log_feature_importance(@),
                 ![active].status = "FINISHED"]
  /\ active' = 0
  /\ i' = i + 1
  /\ pc' = "loop"
  /\ UNCHANGED <<params_candidates, param_set, score_cv, k, best_run_df,
                 best_run, best_params, artifact_dir, bento, written, stages,
                 err, exit_code>>

\* lines 109-111
SearchRuns ==
  /\ pc = "search_runs"
  /\ best_run_df' = search_runs(store)
  /\ pc' = "check_runs"
  /\ stages' = Append(stages, "SELECT_BEST")
  /\ UNCHANGED <<params_candidates, param_set, i, score_cv, store, active, k,
                 best_run, best_params, artifact_dir, bento, written, err,
                 exit_code>>

\* the zero-runs error without the experiment's name
RaiseNoRuns_Unnamed ==
  /\ pc = "check_runs"
  /\ Len(best_run_df) = 0
  /\ Abort(<<NoRunsMessage[1], "">>)
  /\ UNCHANGED <<params_candidates, param_set, i, score_cv, k, best_run_df,
                 best_run, best_params, artifact_dir, bento, written, stages>>

\* lines 113-114
RaiseNoRuns ==
  /\ pc = "check_runs"
  /\ Len(best_run_df) = 0
  /\ Abort(NoRunsMessage)
  /\ UNCHANGED <<params_candidates, param_set, i, score_cv, k, best_run_df,
                 best_run, best_params, artifact_dir, bento, written, stages>>

\* lines 116-118
GetRun ==
  /\ pc = "check_runs"
  /\ Len(best_run_df) # 0
  /\ best_run' = <<best_run_df[1]>>
  /\ best_params' = store[best_run_df[1]].params
  /\ pc' = "copy_tree"
  /\ UNCHANGED <<params_candidates, param_set, i, score_cv, store, active, k,
                 best_run_df, artifact_dir, bento, written, stages, err,
                 exit_code>>

\* lines 120-123: the best run's model directory exists
CopyTree ==
  /\ pc = "copy_tree"
  /\ "model" \in store[best_run[1]].artifacts
  /\ artifact_dir' = <<best_run[1]>>
  /\ written' = written \cup {"artifact_dir"}
  /\ pc' = "save_model"
  /\ stages' = Append(stages, "EXPORT")
  /\ UNCHANGED <<params_candidates, param_set, i, score_cv, store, active, k,
                 best_run_df, best_run, best_params, bento, err, exit_code>>

\* line 123 raising: copy_tree of a directory that does not exist
RaiseCopyTree ==
  /\ pc = "copy_tree"
  /\ "model" \notin store[best_run[1]].artifacts
  /\ Abort(<<"copy_tree", "not a directory">>)
  /\ stages' = Append(stages, "EXPORT")
  /\ UNCHANGED <<params_candidates, param_set, i, score_cv, k, best_run_df,
                 best_run, best_params, artifact_dir, bento, written>>

\* lines 125-130, then the end of the script
SaveModel ==
  /\ pc = "save_model"
  /\ bento' = <<[name |-> "house_rent", model |-> best_run[1],
                 signatures |-> {<<"predict", "batchable", 0>>},
                 metadata |-> best_params]>>
  /\ written' = written \cup {"house_rent"}
  /\ pc' = "done"
  /\ exit_code' = 0
  /\ UNCHANGED <<params_candidates, param_set, i, score_cv, store, active, k,
                 best_run_df, best_run, best_params, artifact_dir, stages,
                 err>>

\* The script is executed again: a new process on the stores left behind.
\* It is given a grid whose parameter sets still fit the store's bound, so
\* no execution starts on a full store.
Restart ==
  /\ pc \in {"done", "aborted"}
  /\ pc' = "load_data"
  /\ params_candidates' \in Grids(MaxStore - Len(store))
  /\ param_set' = <<>>
  /\ i' = 0
  /\ score_cv' = 0
  /\ store' = [r \in 1..Len(store) |-> [store[r] EXCEPT !.own = FALSE]]
  /\ active' = 0
  /\ k' = 0
  /\ best_run_df' = <<>>
  /\ best_run' = <<>>
  /\ best_params' = {}
  /\ written' = {}
  /\ stages' = <<>>
  /\ err' = NoError
  /\ exit_code' = -1
  /\ UNCHANGED <<artifact_dir, bento>>

Driver ==
  \/ LoadData
  \/ RaiseLoadData
  \/ FeatureEngineer
  \/ PersistFeatures
  \/ ExpandGrid
  \/ SetExperiment
  \/ StartRun
  \/ LoopExit
  \/ Fit
  \/ RaiseFit
  \/ Evaluate
  \/ SetTag
  \/ LogParams
  \/ LogMetrics
  \/ LogTrainLoss
  \/ LogModel
  \/ LogArtifact
  \/ RaiseLogArtifact
  \/ LogFeatureImportance
  \/ SearchRuns
  \/ RaiseNoRuns
  \/ GetRun
  \/ CopyTree
  \/ RaiseCopyTree
  \/ SaveModel

Next ==
  \/ Driver
  \/ Restart

Spec ==
  Init /\ [][Next]_vars

TypeOK ==
  /\ pc \in {"load_data", "feature_engineer", "persist_features", "expand",
             "set_experiment", "loop", "fit", "evaluate", "set_tag",
             "log_params", "log_metrics", "train_loss", "log_artifact",
             "log_feature_importance", "search_runs", "check_runs",
             "copy_tree", "save_model", "done", "aborted"}
  /\ active \in 0..Len(store)
  /\ i \in 0..MaxStore
  /\ exit_code \in {-1, 0, 1}

\* ------------------------------------------------- vocabulary of the claims
GridSize ==
  Len(params_candidates.learning_rate) * Len(params_candidates.max_depth)
    * Len(params_candidates.max_features)

IsPrefix(a, b) ==
  /\ Len(a) <= Len(b)
  /\ \A j \in 1..Len(a) : a[j] = b[j]

Entered(stage) ==
  \E j \in 1..Len(stages) : stages[j] = stage

ExpectedStages(n) ==
  <<"LOAD_DATA", "FEATURE_ENGINEER", "PERSIST_FEATURES">>
    \o [j \in 1..(3 * n) |-> <<"FIT", "EVALUATE", "LOG">>[((j - 1) % 3) + 1]]
    \o <<"SELECT_BEST", "EXPORT">>

Runs ==
  1..Len(store)

\* the id of the n-th run the current execution started
OwnRun(n) ==
  Len(store) - Cardinality(Own) + n

RMSE(r) ==
  LatestMetric(store[r], "RMSE_CV")

Scored(r) ==
  HasMetric(store[r], "RMSE_CV")

TrainLoss(r) ==
  SelectSeq(store[r].metrics, LAMBDA m : m.key = "Train Loss")

ParamValue(r, key) ==
  (CHOOSE p \in store[r].params : p[1] = key)[2][2]

\* the parameters of run a come before those of run b in the product order
LexLess(a, b) ==
  \E j \in 1..Len(Keys) :
    /\ \A m \in 1..(j - 1) : ParamValue(a, Keys[m]) = ParamValue(b, Keys[m])
    /\ ParamValue(a, Keys[j]) < ParamValue(b, Keys[j])

\* ---------------------------------------------------------------- claims
\* C1: the stages of an execution occur only in the order LOAD_DATA,
\* FEATURE_ENGINEER, PERSIST_FEATURES, (FIT, EVALUATE, LOG) once per
\* parameter set, SELECT_BEST, EXPORT; no run is started before the feature
\* CSV is persisted; SELECT_BEST is not entered before all N iterations have
\* finished; EXPORT is not entered unless SELECT_BEST returned a run; the
\* driver stops only in done (after EXPORT) or in a fatal abort.
C1_StageOrder ==
  /\ IsPrefix(stages, ExpectedStages(Len(param_set)))
  /\ Own # {} => "features_csv" \in written /\ Entered("PERSIST_FEATURES")
  /\ Entered("SELECT_BEST") =>
       /\ i = Len(param_set)
       /\ Cardinality(Own) = Len(param_set)
       /\ \A r \in Own : store[r].status = "FINISHED"
  /\ Entered("EXPORT") => Len(best_run_df) = 1
  /\ ~ENABLED Driver => pc \in {"done", "aborted"}
  /\ pc = "done" =>
       /\ exit_code = 0
       /\ err = NoError
       /\ stages = ExpectedStages(Len(param_set))
       /\ "house_rent" \in written
  /\ pc = "aborted" => exit_code = 1 /\ err # NoError
  /\ pc \notin {"done", "aborted"} => exit_code = -1

C1_Witness ==
  /\ pc = "done"
  /\ Len(param_set) = 2
  /\ Len(store) > 2

\* C2: the run SELECT_BEST returns has the minimum RMSE_CV of all runs of
\* the experiment: no run has a strictly smaller RMSE_CV.
C2_BestIsMinimum ==
  /\ Len(best_run_df) = 1 =>
       /\ best_run_df[1] \in Runs
       /\ \A r \in Runs : Scored(r) =>
            /\ Scored(best_run_df[1])
            /\ RMSE(best_run_df[1]) <= RMSE(r)
  /\ Len(best_run) = 1 => best_run = best_run_df
  /\ pc \in {"check_runs", "copy_tree", "save_model", "done"} =>
       Len(best_run_df) = (IF Len(store) = 0 THEN 0 ELSE 1)

C2_Witness ==
  /\ pc = "copy_tree"
  /\ Len(store) = 3
  /\ \A r \in Runs : Scored(r)
  /\ best_run[1] = 2
  /\ RMSE(2) < RMSE(1)
  /\ RMSE(2) < RMSE(3)

\* C3: with zero run records at SELECT_BEST the driver aborts with the
\* message naming the experiment and exit code 1, and writes neither the
\* artifact directory nor the house_rent entry.
C3_NoRunsAbort ==
  /\ (Entered("SELECT_BEST") /\ Len(store) = 0) =>
       /\ best_run_df = <<>>
       /\ pc \in {"check_runs", "aborted"}
       /\ pc = "aborted" => err = NoRunsMessage
       /\ ENABLED Driver => ENABLED RaiseNoRuns /\ ~ENABLED GetRun
  /\ err[1] = NoRunsMessage[1] =>
       /\ err[2] = experiment_name
       /\ pc = "aborted"
       /\ exit_code = 1
       /\ written \cap {"artifact_dir", "house_rent"} = {}
       /\ ~Entered("EXPORT")

C3_Witness ==
  /\ pc = "aborted"
  /\ err = NoRunsMessage
  /\ Len(store) = 0

\* C4 as stated: a completed execution of a single-parameter-set grid leaves
\* a house_rent entry whose metadata is exactly the parameter set of that
\* execution (in the string form the tracker keeps).
C4_Original ==
  (pc = "done" /\ Len(param_set) = 1) =>
     /\ Len(bento) = 1
     /\ bento[1].name = "house_rent"
     /\ bento[1].metadata = LoggedParams(param_set[1])

\* C4 as amended: the same, when no run of an earlier execution has a
\* strictly smaller RMSE_CV than the run of this execution.
C4_Amended ==
  (/\ pc = "done"
   /\ Len(param_set) = 1
   /\ \A r \in Runs \ Own : \A o \in Own : Scored(r) => RMSE(r) >= RMSE(o)) =>
     /\ Len(bento) = 1
     /\ bento[1].name = "house_rent"
     /\ bento[1].model \in Own
     /\ bento[1].metadata = LoggedParams(param_set[1])

C4_Witness ==
  /\ pc = "done"
  /\ Len(param_set) = 1
  /\ \E r \in Runs \ Own : Scored(r) /\ store[r].params # best_params
  /\ \A r \in Runs \ Own : \A o \in Own : Scored(r) => RMSE(r) >= RMSE(o)

\* C5: one run per parameter set, in expansion order, named Run i for
\* i = 0..N-1; after the loop the execution has created as many runs as the
\* product of the candidate-list lengths; at most one run is open.
C5_OneRunPerParamSet ==
  /\ Cardinality({r \in Runs : store[r].status = "RUNNING"}) <= 1
  /\ \A r \in Runs : store[r].status = "RUNNING" => r = active
  /\ Own = {OwnRun(n) : n \in 1..Cardinality(Own)}
  /\ \A n \in 1..Cardinality(Own) : store[OwnRun(n)].run_name = RunName(n - 1)
  /\ Cardinality({r \in Own : store[r].status = "FINISHED"}) = i
  /\ Cardinality({r \in Own : store[r].status # "FINISHED"}) <= 1
  /\ \A a, b \in Own :
       (a < b /\ store[a].params # {} /\ store[b].params # {}) => LexLess(a, b)
  /\ \A r \in Own : store[r].params # {} =>
       \A j \in 1..Len(Keys) :
         ParamValue(r, Keys[j]) \in 1..Len(params_candidates[Keys[j]])
  /\ pc \in {"search_runs", "check_runs", "copy_tree", "save_model", "done"} =>
       Cardinality(Own) = GridSize

C5_Witness ==
  /\ pc = "search_runs"
  /\ Cardinality(Own) = 2
  /\ Len(store) = 3

\* C6: when the fit of a run raises the process aborts: no later parameter
\* set is fitted or tracked, SELECT_BEST and EXPORT are not entered, and the
\* execution writes no house_rent entry.
C6_FitAborts ==
  err[1] = "fit" =>
    /\ pc = "aborted"
    /\ exit_code = 1
    /\ ~ENABLED Driver
    /\ Cardinality(Own) = i + 1
    /\ store[OwnRun(i + 1)].status = "FAILED"
    /\ Cardinality({j \in 1..Len(stages) : stages[j] = "FIT"}) = i + 1
    /\ ~Entered("SELECT_BEST")
    /\ ~Entered("EXPORT")
    /\ "house_rent" \notin written
    /\ "artifact_dir" \notin written

C6_Witness ==
  /\ err[1] = "fit"
  /\ i = 0
  /\ Len(param_set) = 2

\* C7 as stated: a failure of artifact logging inside a run does not abort
\* the run or the process.
C7_Claim ==
  err[1] = "log_artifact" =>
    /\ pc # "aborted"
    /\ \A r \in Own : store[r].status # "FAILED"

\* C8: everything logged for parameter set i goes to run i while it is open,
\* and a run that has ended keeps its tags, parameters, metrics and
\* artifacts for the rest of this and of every later execution.
C8_Sealed ==
  [][/\ active # 0 =>
          /\ store[active].status = "RUNNING"
          /\ store[active].own
          /\ store[active].run_name = RunName(i)
     /\ \A r \in Runs : r # active => store[r].status # "RUNNING"
     /\ Len(store') >= Len(store)
     /\ \A r \in Runs :
          (store[r].status # "RUNNING" \/ pc \in {"done", "aborted"}) =>
            /\ store'[r].run_name = store[r].run_name
            /\ store'[r].status = store[r].status
            /\ store'[r].tags = store[r].tags
            /\ store'[r].params = store[r].params
            /\ store'[r].metrics = store[r].metrics
            /\ store'[r].artifacts = store[r].artifacts]_vars

C8_Witness ==
  /\ active = 2
  /\ store[1].status = "FINISHED"
  /\ store[1].own
  /\ pc = "log_artifact"

\* C9 as stated: the Train Loss history of a finished run has one entry per
\* boosting iteration, in iteration order, each at its own step.
C9_Claim ==
  \A r \in Runs : store[r].status = "FINISHED" =>
    /\ Len(TrainLoss(r)) = NEstimators
    /\ \A j \in 1..NEstimators : TrainLoss(r)[j].value = train_score(j)
    /\ \A a, b \in 1..Len(TrainLoss(r)) :
         a # b => TrainLoss(r)[a].step # TrainLoss(r)[b].step

\* C10 as stated: the zero-runs abort happens only on an empty store, and an
\* execution for which SELECT_BEST returns a run of an earlier execution
\* does not abort and exports that run's model and parameters.
C10_Original ==
  /\ err = NoRunsMessage => Len(store) = 0
  /\ (Len(best_run_df) = 1 /\ best_run_df[1] \notin Own) =>
       /\ pc # "aborted"
       /\ pc = "done" =>
            /\ bento[1].model = best_run_df[1]
            /\ bento[1].metadata = store[best_run_df[1]].params

\* C10 as amended: the export of the earlier run succeeds when that run
\* carries a logged model; when it carries none, copying its model
\* directory raises and the execution aborts without a house_rent entry.
C10_Amended ==
  /\ err = NoRunsMessage => Len(store) = 0
  /\ (Len(best_run_df) = 1 /\ best_run_df[1] \notin Own) =>
       IF "model" \in store[best_run_df[1]].artifacts
       THEN /\ pc # "aborted"
            /\ pc = "done" =>
                 /\ bento[1].name = "house_rent"
                 /\ bento[1].model = best_run_df[1]
                 /\ bento[1].metadata = store[best_run_df[1]].params
                 /\ artifact_dir = best_run_df
       ELSE /\ pc \in {"check_runs", "copy_tree", "aborted"}
            /\ pc = "aborted" => err[1] = "copy_tree"
            /\ "house_rent" \notin written

C10_Witness ==
  /\ pc = "done"
  /\ Own = {}
  /\ Len(store) > 0
====
